---------------------------- MODULE Spec2Model ----------------------------
(***************************************************************************)
(* A state-machine model of soci-test (src/src/soci-test.cpp): the option  *)
(* parser, the connection check, the interactive insert loop and the       *)
(* tabular report, run by one or two processes over shared database files. *)
(***************************************************************************)
EXTENDS Integers, Sequences, FiniteSets, TLC

\* proc[p]:     the state of process p (its place in main, main's locals,
\*              its standard streams and exit status);
\* files[n]:    the database file n.db;
\* overlapped:  history: some insert loop has read its row count while
\*              another process was inside its insert loop on the same file.
VARIABLES proc, files, overlapped

vars == <<proc, files, overlapped>>

(***************************************************************************)
(* Bounds of the model.                                                    *)
(***************************************************************************)
MaxArgs == 3
MaxInitRows == 1
MaxRows == 2

Procs == {1, 2}

(***************************************************************************)
(* Program constants.                                                      *)
(***************************************************************************)
EXIT_SUCCESS == 0
EXIT_FAILURE == 1
USHRT_MAX == 65535
Precision == 6

(***************************************************************************)
(* The command line.  A word of argv is kept with its raw text and with    *)
(* the way getopt reads it: kind "short" (-x, with the text attached to    *)
(* the letter, if any), "long" (--name) or "plain" (no leading dash).      *)
(***************************************************************************)
W_dt   == [raw |-> "-dt",    kind |-> "short", opt |-> "d",    att |-> "t"]
W_i1   == [raw |-> "-i1",    kind |-> "short", opt |-> "i",    att |-> "1"]
W_i2   == [raw |-> "-i2",    kind |-> "short", opt |-> "i",    att |-> "2"]
W_i0   == [raw |-> "-i0",    kind |-> "short", opt |-> "i",    att |-> "0"]
W_i    == [raw |-> "-i",     kind |-> "short", opt |-> "i",    att |-> ""]
W_m5   == [raw |-> "-5",     kind |-> "short", opt |-> "5",    att |-> ""]
W_s    == [raw |-> "-s",     kind |-> "short", opt |-> "s",    att |-> ""]
W_h    == [raw |-> "-h",     kind |-> "short", opt |-> "h",    att |-> ""]
W_help == [raw |-> "--help", kind |-> "long",  opt |-> "help", att |-> ""]

AllWords == {W_dt, W_i2, W_i0, W_i, W_m5, W_s, W_h, W_help}

RECURSIVE SeqsUpTo(_, _)
SeqsUpTo(S, n) ==
  IF n = 0 THEN {<<>>}
  ELSE LET shorter == SeqsUpTo(S, n - 1)
       IN  shorter \cup {Append(s, w) : s \in shorter, w \in S}

\* Every command line of at most MaxArgs words.
AllArgv == SeqsUpTo(AllWords, MaxArgs)

\* The command lines of the runs that exercise the insert loop and the report.
RunArgv ==
  { <<W_dt, W_i1>>, <<W_dt, W_s>>,
    <<W_dt, W_i1, W_s>>, <<W_dt, W_i2, W_s>> }

DbNames == {"", "t"}

\* The short options "i:d:hs": TRUE when the letter takes a value.
ShortOptions == [i |-> TRUE, d |-> TRUE, h |-> FALSE, s |-> FALSE]

\* long_options: each name with has_arg and the value getopt_long returns.
long_options ==
  [database |-> [has_arg |-> TRUE,  val |-> "d"],
   insert   |-> [has_arg |-> TRUE,  val |-> "i"],
   select   |-> [has_arg |-> FALSE, val |-> "s"],
   help     |-> [has_arg |-> FALSE, val |-> "NUL"]]

\* std::atoi over the texts the model's words carry; a text that does not
\* start with a number converts to 0.
atoi(s) ==
  CASE s = "0"  -> 0
    [] s = "1"  -> 1
    [] s = "2"  -> 2
    [] s = "-5" -> -5
    [] OTHER    -> 0

RECURSIVE NextOption(_, _)
\* getopt's scan: the index of the first word at or after optind that is an
\* option (plain words are passed over), or Len(argv) + 1 when there is none.
NextOption(argv, optind) ==
  IF optind > Len(argv) THEN Len(argv) + 1
  ELSE IF argv[optind].kind # "plain" THEN optind
  ELSE NextOption(argv, optind + 1)

\* One call of getopt_long(argc, argv, "i:d:hs", long_options, NULL): the value
\* returned ("EOF" for -1, "NUL" for 0, "?" for an error), optarg and the new
\* optind.
getopt_long(argv, optind) ==
  LET k == NextOption(argv, optind) IN
  IF k > Len(argv) THEN [c |-> "EOF", optarg |-> "", optind |-> k]
  ELSE
    LET w       == argv[k]
        known   == IF w.kind = "long" THEN w.opt \in DOMAIN long_options
                   ELSE w.opt \in DOMAIN ShortOptions
        val     == IF w.kind = "long" THEN long_options[w.opt].val ELSE w.opt
        has_arg == IF w.kind = "long" THEN long_options[w.opt].has_arg
                   ELSE ShortOptions[w.opt]
    IN  IF ~known THEN [c |-> "?", optarg |-> "", optind |-> k + 1]
        ELSE IF ~has_arg THEN [c |-> val, optarg |-> "", optind |-> k + 1]
        ELSE IF w.att # "" THEN [c |-> val, optarg |-> w.att, optind |-> k + 1]
        ELSE IF k + 1 <= Len(argv)
             THEN [c |-> val, optarg |-> argv[k + 1].raw, optind |-> k + 2]
        ELSE [c |-> "?", optarg |-> "", optind |-> k + 1]

(***************************************************************************)
(* Standard input.  A token is a word or a number; NL ends a line.  The    *)
(* buffer cin holds what has been typed and not yet read; an input event   *)
(* is a typed line or the end of input.                                    *)
(***************************************************************************)
NL       == [k |-> "nl",   v |-> 0]
WordA    == [k |-> "word", v |-> 0]
Num(n)   == [k |-> "num",  v |-> n]

Line(l)  == [eof |-> FALSE, line |-> l]
EndOfInput == [eof |-> TRUE, line |-> <<>>]
NoInput  == [eof |-> FALSE, line |-> <<NL>>]

\* What the operator may type when the program waits at a prompt: a line of
\* at most one token (an empty line typed at a numeric prompt is white space
\* the extraction skips, so it is left out there).
WildLines(prompt) ==
  CASE prompt = "name"  -> {<<>>, <<WordA>>}
    [] prompt = "price" -> {<<WordA>>, <<Num(1)>>, <<Num(1234567)>>}
    [] OTHER            -> {<<WordA>>, <<Num(0)>>, <<Num(1)>>, <<Num(1234567)>>}

\* The answers of an operator who types what each prompt asks for.
TameLine(prompt) ==
  CASE prompt = "name"       -> <<WordA>>
    [] prompt = "price"      -> <<Num(1)>>
    [] prompt = "is_edited"  -> <<Num(1)>>
    [] prompt = "is_deleted" -> <<Num(0)>>

\* The input events possible at a prompt: a typed line or the end of input.
Inputs(user, prompt) ==
  IF user = "tame" THEN {Line(TameLine(prompt))}
  ELSE {Line(l) : l \in WildLines(prompt)} \cup {EndOfInput}

RECURSIVE SkipWs(_)
\* The white space an extraction skips first: here, the line ends.
SkipWs(buf) ==
  IF buf # <<>> /\ Head(buf) = NL THEN SkipWs(Tail(buf)) ELSE buf

RECURSIVE UpToNL(_)
\* The tokens before the first line end.
UpToNL(buf) ==
  IF buf = <<>> \/ Head(buf) = NL THEN <<>>
  ELSE <<Head(buf)>> \o UpToNL(Tail(buf))

RECURSIVE AfterNL(_)
\* What follows the first line end (nothing when there is none).
AfterNL(buf) ==
  IF buf = <<>> THEN <<>>
  ELSE IF Head(buf) = NL THEN Tail(buf)
  ELSE AfterNL(Tail(buf))

\* Whether std::getline has to wait for the operator.
GetlineWaits(cin, good) == good /\ cin = <<>>

\* Whether operator>> has to wait for the operator.
ExtractWaits(cin, good) == good /\ SkipWs(cin) = <<>>

\* std::getline(std::cin, exam.name): the line read, the buffer and the
\* stream state after it; used tells whether inp was consumed.
getline(cin, good, inp) ==
  IF ~good THEN [buf |-> cin, good |-> FALSE, used |-> FALSE, val |-> <<>>]
  ELSE IF cin = <<>>
       THEN IF inp.eof
            THEN [buf |-> <<>>, good |-> FALSE, used |-> TRUE, val |-> <<>>]
            ELSE [buf |-> <<>>, good |-> TRUE, used |-> TRUE, val |-> inp.line]
  ELSE [buf |-> AfterNL(cin), good |-> TRUE, used |-> FALSE, val |-> UpToNL(cin)]

\* Whether a number fits the type read: a double takes every number of the
\* model, an unsigned short those up to USHRT_MAX.
Fits(type, n) == type = "double" \/ n <= USHRT_MAX

\* The value stored when a number does not fit an unsigned short.
Saturated(type) == USHRT_MAX

\* The extraction as it was before C++11: a failed conversion leaves x as
\* it was.
extract_LeavesValue(type, cin, good, inp, eats) ==
  IF ~good
  THEN [buf |-> cin, good |-> FALSE, used |-> FALSE, assigned |-> FALSE, val |-> 0]
  ELSE
    LET waits == SkipWs(cin) = <<>>
        b     == IF waits THEN inp.line \o <<NL>> ELSE SkipWs(cin)
        tok   == Head(b)
    IN  IF waits /\ inp.eof
        THEN [buf |-> <<>>, good |-> FALSE, used |-> TRUE, assigned |-> FALSE, val |-> 0]
        ELSE IF tok.k = "num" /\ Fits(type, tok.v)
        THEN [buf |-> Tail(b), good |-> TRUE, used |-> waits, assigned |-> TRUE,
              val |-> tok.v]
        ELSE [buf |-> IF tok.k = "num" \/ eats THEN Tail(b) ELSE b,
              good |-> FALSE, used |-> waits, assigned |-> FALSE, val |-> 0]

\* std::cin >> x for a double or an unsigned short x.  assigned tells whether
\* x was written: it is not when the stream was already in a failed state
\* or the input ended before a token.  On a token that is no number, 0 is
\* stored, the stream fails, and eats tells whether the library consumed
\* the token.  On a number out of range the largest value is stored and the
\* stream fails.
extract(type, cin, good, inp, eats) ==
  IF ~good
  THEN [buf |-> cin, good |-> FALSE, used |-> FALSE, assigned |-> FALSE, val |-> 0]
  ELSE
    LET waits == SkipWs(cin) = <<>>
        b     == IF waits THEN inp.line \o <<NL>> ELSE SkipWs(cin)
        tok   == Head(b)
    IN  IF waits /\ inp.eof
        THEN [buf |-> <<>>, good |-> FALSE, used |-> TRUE, assigned |-> FALSE, val |-> 0]
        ELSE IF tok.k = "num" /\ Fits(type, tok.v)
        THEN [buf |-> Tail(b), good |-> TRUE, used |-> waits, assigned |-> TRUE,
              val |-> tok.v]
        ELSE IF tok.k = "num"
        THEN [buf |-> Tail(b), good |-> FALSE, used |-> waits, assigned |-> TRUE,
              val |-> Saturated(type)]
        ELSE [buf |-> IF eats THEN Tail(b) ELSE b, good |-> FALSE, used |-> waits,
              assigned |-> TRUE, val |-> 0]

\* std::cin.ignore(max, '\n'): drops the rest of the line, unless the stream
\* has failed, when it does nothing.  A stream that is good here has just
\* read a number from a typed line, whose line end is still in the buffer.
ignore(cin, good) == IF good THEN AfterNL(cin) ELSE cin

\* The values an object that was never written may hold.
Indeterminate(type) ==
  IF type = "double" THEN {0, 1, 1234567} ELSE {0, 1, USHRT_MAX}

(***************************************************************************)
(* The database files.  files[n] is the file n.db: whether the exam table  *)
(* exists in it, and the table's rows in insertion order.                  *)
(***************************************************************************)
NoFile == [created |-> FALSE, exam |-> <<>>]

\* A row as an earlier run of the program with well-formed input left it.
StoredRow(j) ==
  [id |-> j, name |-> <<WordA>>,
   price |-> IF j % 2 = 1 THEN 1234567 ELSE 1,
   is_edited |-> 1, is_deleted |-> 0]

\* The exam table after earlier runs inserted c rows in all.
StoredTable(c) == [created |-> TRUE, exam |-> [j \in 1..c |-> StoredRow(j)]]

(***************************************************************************)
(* A process.  pc is the place in main; the other fields are main's        *)
(* locals, the standard streams and the exit status.  typed is what the    *)
(* operator has typed so far, in order.                                    *)
(***************************************************************************)
Idle ==
  [pc |-> "idle", argv |-> <<>>, optind |-> 1, c |-> "NUL",
   insert_mode |-> FALSE, select_mode |-> FALSE, records |-> 0,
   db_name |-> "", sql |-> "none", examn_count |-> 0, i |-> 0,
   exam |-> [id |-> 0, name |-> <<>>, price |-> 0, is_edited |-> 0,
             is_deleted |-> 0],
   cin |-> <<>>, good |-> TRUE, typed |-> <<>>, width |-> 0,
   cout |-> <<>>, cerr |-> <<>>, status |-> -1]

\* main's locals at entry (lines 79-83) with the command line argv.
Started(argv) == [Idle EXCEPT !.pc = "getopt", !.argv = argv]

\* argc without the program's own name in it.
argc_WithoutProgramName(argv) == Len(argv)

argc(argv) == Len(argv) + 1

\* usage(status): the hint on standard error for EXIT_SUCCESS, the usage
\* text on standard output otherwise; then exit(status).
usage(self, status) ==
  IF status = EXIT_SUCCESS
  THEN [self EXCEPT !.cerr = Append(@, "try_help"), !.status = status,
                    !.pc = "exited"]
  ELSE [self EXCEPT !.cout = Append(@, [k |-> "usage"]), !.status = status,
                    !.pc = "exited"]

\* The body of the option loop for one value c returned by getopt_long.
OptionCase(self, g) ==
  LET s == [self EXCEPT !.c = g.c, !.optind = g.optind] IN
  IF g.c = "EOF" THEN [s EXCEPT !.pc = "check"]
  ELSE IF g.c = "?" THEN usage(s, EXIT_FAILURE)
  ELSE IF g.c = "d" THEN [s EXCEPT !.db_name = g.optarg]
  ELSE IF g.c = "i" THEN [s EXCEPT !.insert_mode = TRUE,
                                   !.records = atoi(g.optarg)]
  ELSE IF g.c = "s" THEN [s EXCEPT !.select_mode = TRUE]
  ELSE IF g.c = "h" THEN usage(s, EXIT_FAILURE)
  ELSE s

\* The checks with the test of the insert count left out.
AfterOptions_NoCountCheck(self) ==
  IF Len(self.argv) + 1 = 1 THEN usage(self, EXIT_SUCCESS)
  ELSE [self EXCEPT !.pc = "open"]

\* The checks between the option loop and the connection.
AfterOptions(self) ==
  IF self.insert_mode /\ self.records < 1 THEN usage(self, EXIT_FAILURE)
  ELSE IF argc(self.argv) = 1 THEN usage(self, EXIT_SUCCESS)
  ELSE [self EXCEPT !.pc = "open"]

\* The connection check without its exit: a failure is reported and main
\* goes on.
Connect_NoExit(self, ok) ==
  IF ok THEN [self EXCEPT !.sql = "connected", !.pc = "create"]
  ELSE [self EXCEPT !.sql = "failed",
                    !.cerr = @ \o <<"could_not_connect_to", "could_not_connect">>,
                    !.pc = "create"]

\* The session's constructor and the is_connected check after it.
Connect(self, ok) ==
  IF ok THEN [self EXCEPT !.sql = "connected", !.pc = "create"]
  ELSE [self EXCEPT !.sql = "failed",
                    !.cerr = @ \o <<"could_not_connect_to", "could_not_connect">>,
                    !.status = EXIT_FAILURE, !.pc = "exited"]

\* Where main goes after a section: the insert loop, the report, or the end.
AfterCreate(self) ==
  IF self.insert_mode THEN [self EXCEPT !.pc = "count"]
  ELSE IF self.select_mode THEN [self EXCEPT !.pc = "header"]
  ELSE [self EXCEPT !.status = EXIT_SUCCESS, !.pc = "exited"]

(***************************************************************************)
(* The actions of a process p.                                             *)
(***************************************************************************)
\* The program is started with a command line of the set A; with again, a
\* process that has exited is started anew while the table is below MaxRows.
Launch(p, A, again) ==
  /\ proc[p].pc \in (IF again /\ Len(files["t"].exam) < MaxRows
                      THEN {"idle", "exited"} ELSE {"idle"})
  /\ \E argv \in A : proc' = [proc EXCEPT ![p] = Started(argv)]
  /\ UNCHANGED <<files, overlapped>>

\* One turn of the option loop.
Getopt(p) ==
  /\ proc[p].pc = "getopt"
  /\ proc' = [proc EXCEPT ![p] =
                OptionCase(@, getopt_long(proc[p].argv, proc[p].optind))]
  /\ UNCHANGED <<files, overlapped>>

CheckOptions(p) ==
  /\ proc[p].pc = "check"
  /\ proc' = [proc EXCEPT ![p] = AfterOptions(@)]
  /\ UNCHANGED <<files, overlapped>>

\* soci::session sql(soci::sqlite3, db_name + ".db"): the connection is made
\* or it is not.
OpenSession(p) ==
  /\ proc[p].pc = "open"
  /\ \E ok \in BOOLEAN : proc' = [proc EXCEPT ![p] = Connect(@, ok)]
  /\ UNCHANGED <<files, overlapped>>

\* create table if not exists exam(...).
CreateTable(p) ==
  /\ proc[p].pc = "create"
  /\ files' = [files EXCEPT ![proc[p].db_name].created = TRUE]
  /\ proc' = [proc EXCEPT ![p] = AfterCreate(@)]
  /\ UNCHANGED overlapped

\* The id counted from 0 instead of 1.
NextId_FromZero(i, examn_count) == i + examn_count - 1

\* The id without the row count in it.
NextId_IgnoresCount(i, examn_count) == i

\* exam.id = i + examn_count.
NextId(i, examn_count) == i + examn_count

\* The loop test i <= records, and where main goes when it fails.
LoopTest(self) ==
  IF self.i <= self.records THEN [self EXCEPT !.pc = "name"]
  ELSE IF self.select_mode THEN [self EXCEPT !.pc = "header"]
  ELSE [self EXCEPT !.status = EXIT_SUCCESS, !.pc = "exited"]

\* Whether process q is inside its insert loop on the file n: it has read
\* the row count and has rows left to insert.
Inserting(q, n) ==
  /\ proc[q].pc \in {"name", "price", "is_edited", "is_deleted", "exec"}
  /\ proc[q].db_name = n

\* select count(*) from exam, into examn_count; then the loop starts at 1.
CountRows(p) ==
  /\ proc[p].pc = "count"
  /\ proc' = [proc EXCEPT ![p] =
       LoopTest([@ EXCEPT !.examn_count = Len(files[proc[p].db_name].exam),
                          !.i = 1])]
  /\ overlapped' = (overlapped \/
                    \E q \in Procs \ {p} : Inserting(q, proc[p].db_name))
  /\ UNCHANGED files

\* The stream fields of a process after a read r that consumed inp or not.
AfterRead(self, r, inp, prompt) ==
  [self EXCEPT !.cin = r.buf, !.good = r.good,
               !.typed = IF r.used THEN Append(@, inp) ELSE @,
               !.cout = Append(@, [k |-> "prompt", of |-> prompt])]

\* The exam_t of an iteration as it is declared: an empty name, and numbers
\* not yet written (their value is settled by the step that reads them or
\* finds them unwritten).
FreshExam == [id |-> 0, name |-> <<>>, price |-> 0, is_edited |-> 0,
              is_deleted |-> 0]

\* A fresh exam_t gets its id; the name is prompted for and read as a line.
ReadName(p, user) ==
  /\ proc[p].pc = "name"
  /\ \E inp \in (IF GetlineWaits(proc[p].cin, proc[p].good)
                 THEN Inputs(user, "name") ELSE {NoInput}) :
       LET r == getline(proc[p].cin, proc[p].good, inp) IN
       proc' = [proc EXCEPT ![p] =
         [AfterRead(@, r, inp, "name") EXCEPT
            !.exam = [FreshExam EXCEPT
                        !.id = NextId(proc[p].i, proc[p].examn_count),
                        !.name = r.val],
            !.pc = "price"]]
  /\ UNCHANGED <<files, overlapped>>

\* std::cin >> exam.<field>, after its prompt; a field the extraction does
\* not write keeps the value of an object never initialised.
ReadNumber(p, user, field, type, next) ==
  /\ proc[p].pc = field
  /\ \E inp \in (IF ExtractWaits(proc[p].cin, proc[p].good)
                 THEN Inputs(user, field) ELSE {NoInput}) :
     \E eats \in BOOLEAN :
       LET r == extract(type, proc[p].cin, proc[p].good, inp, eats) IN
       \E v \in (IF r.assigned THEN {r.val} ELSE Indeterminate(type)) :
         proc' = [proc EXCEPT ![p] =
           [AfterRead(@, r, inp, field) EXCEPT !.exam[field] = v, !.pc = next]]
  /\ UNCHANGED <<files, overlapped>>

ReadPrice(p, user) == ReadNumber(p, user, "price", "double", "is_edited")

ReadEdited(p, user) == ReadNumber(p, user, "is_edited", "ushort", "is_deleted")

ReadDeleted(p, user) == ReadNumber(p, user, "is_deleted", "ushort", "exec")

\* The row the insert statement stores for the record exam.
Bound(exam) == exam

\* cin.ignore, cin.clear, the insert statement, ++i and the loop test.
Execute(p) ==
  /\ proc[p].pc = "exec"
  /\ files' = [files EXCEPT ![proc[p].db_name].exam =
                 Append(@, Bound(proc[p].exam))]
  /\ proc' = [proc EXCEPT ![p] =
       LoopTest([@ EXCEPT !.cin = ignore(proc[p].cin, proc[p].good),
                          !.good = TRUE, !.i = @ + 1])]
  /\ UNCHANGED overlapped

(***************************************************************************)
(* The report.  Standard output is a sequence of items: prompts, the usage *)
(* text, header cells, value cells and line ends.  A cell keeps the field  *)
(* width set for it and its text; the text of a value is kept as tokens.   *)
(***************************************************************************)
\* The columns of exam as the create statement declares them, each with the
\* type the library reports for it.
Columns ==
  << [name |-> <<"i", "d">>,           field |-> "id",
      type |-> "dt_integer"],
     [name |-> <<"n", "a", "m", "e">>, field |-> "name",
      type |-> "dt_string"],
     [name |-> <<"p", "r", "i", "c", "e">>, field |-> "price",
      type |-> "dt_double"],
     [name |-> <<"i", "s", "_", "e", "d", "i", "t", "e", "d">>,
      field |-> "is_edited",  type |-> "dt_integer"],
     [name |-> <<"i", "s", "_", "d", "e", "l", "e", "t", "e", "d">>,
      field |-> "is_deleted", type |-> "dt_integer"] >>

RECURSIVE MaxColLength(_, _, _)
\* The first loop of the report: the longest column name among cols[i..].
MaxColLength(cols, i, max_col_length) ==
  IF i > Len(cols) THEN max_col_length
  ELSE LET current_col_name_length == Len(cols[i].name)
       IN  MaxColLength(cols, i + 1,
             IF current_col_name_length > max_col_length
             THEN current_col_name_length ELSE max_col_length)

\* int width = max_col_length + 2, from the smallest int32_t.
Width(cols) == MaxColLength(cols, 1, -2147483647 - 1) + 2

RECURSIVE Pow10(_)
Pow10(n) == IF n = 0 THEN 1 ELSE 10 * Pow10(n - 1)

RECURSIVE Digits(_)
\* The number of decimal digits of a natural number.
Digits(x) == IF x < 10 THEN 1 ELSE 1 + Digits(x \div 10)

\* The number a double prints as with the stream's default format: at most
\* Precision significant digits, the rest rounded away (half to even).
FormatDouble(x) ==
  IF Digits(x) <= Precision THEN x
  ELSE LET unit == Pow10(Digits(x) - Precision)
           q    == x \div unit
           r    == x % unit
           up   == 2 * r > unit \/ (2 * r = unit /\ q % 2 = 1)
       IN  (IF up THEN q + 1 ELSE q) * unit

\* The switch with the double printed digit for digit, as an integer is.
CellText_FullPrecision(type, v) ==
  IF type = "dt_string" THEN v ELSE <<Num(v)>>

\* The text of one value, by the switch on the column's type.
CellText(type, v) ==
  CASE type = "dt_double"  -> <<Num(FormatDouble(v))>>
    [] type = "dt_string"  -> v
    [] type = "dt_integer" -> <<Num(v)>>

Cell(width, text) == [k |-> "cell", w |-> width, t |-> text]

EndLine == [k |-> "nl"]

\* The header line: every column name right-justified in width, then '\n'.
HeaderLine(cols, width) ==
  [i \in 1..Len(cols) |-> [k |-> "hdr", w |-> width, name |-> cols[i].name]]
    \o <<EndLine>>

\* A row's line without the putchar(10) that ends it.
RowLine_NoNewline(cols, width, row) ==
  [i \in 1..Len(cols) |-> [k |-> "cell", w |-> width,
     t |-> IF cols[i].type = "dt_string" THEN row[cols[i].field]
           ELSE <<Num(row[cols[i].field])>>]]

\* One row's line: a cell per column, then putchar(10).
RowLine(cols, width, row) ==
  [i \in 1..Len(cols) |-> Cell(width, CellText(cols[i].type, row[cols[i].field]))]
    \o <<EndLine>>

RECURSIVE RowLines(_, _, _)
\* The lines of the rows of a rowset, in its order.
RowLines(cols, width, rset) ==
  IF rset = <<>> THEN <<>>
  ELSE RowLine(cols, width, Head(rset)) \o RowLines(cols, width, Tail(rset))

\* select * from exam into a row, the width, and the header line.
PrintHeader(p) ==
  /\ proc[p].pc = "header"
  /\ proc' = [proc EXCEPT ![p] =
       [@ EXCEPT !.width = Width(Columns),
                 !.cout = @ \o HeaderLine(Columns, Width(Columns)),
                 !.pc = "rows"]]
  /\ UNCHANGED <<files, overlapped>>

\* The rowset of select * from exam, printed row by row; return EXIT_SUCCESS.
PrintRows(p) ==
  /\ proc[p].pc = "rows"
  /\ proc' = [proc EXCEPT ![p] =
       [@ EXCEPT !.cout = @ \o RowLines(Columns, proc[p].width,
                                        files[proc[p].db_name].exam),
                 !.status = EXIT_SUCCESS, !.pc = "exited"]]
  /\ UNCHANGED <<files, overlapped>>

(***************************************************************************)
(* The specifications.                                                     *)
(***************************************************************************)
\* A step of process p, whose operator behaves as user says.
Step(p, user) ==
  \/ Getopt(p)
  \/ CheckOptions(p)
  \/ OpenSession(p)
  \/ CreateTable(p)
  \/ CountRows(p)
  \/ ReadName(p, user)
  \/ ReadPrice(p, user)
  \/ ReadEdited(p, user)
  \/ ReadDeleted(p, user)
  \/ Execute(p)
  \/ PrintHeader(p)
  \/ PrintRows(p)

NoProc == [p \in Procs |-> Idle]

\* One run over a table that earlier runs left with up to MaxInitRows rows;
\* the operator may type anything.
Init ==
  /\ proc = NoProc
  /\ \E c \in 0..MaxInitRows :
       files = [n \in DbNames |-> IF n = "t" THEN StoredTable(c) ELSE NoFile]
  /\ overlapped = FALSE

Next == Launch(1, RunArgv, FALSE) \/ Step(1, "wild")

Spec == Init /\ [][Next]_vars

\* One run with any command line, no database file existing before it.
InitArgs ==
  /\ proc = NoProc
  /\ files = [n \in DbNames |-> NoFile]
  /\ overlapped = FALSE

NextArgs == Launch(1, AllArgv, FALSE) \/ Step(1, "tame")

SpecArgs == InitArgs /\ [][NextArgs]_vars

\* Two processes, each run again and again, in any interleaving.
NextRuns == \E p \in Procs : Launch(p, RunArgv, TRUE) \/ Step(p, "tame")

SpecRuns == InitArgs /\ [][NextRuns]_vars

(***************************************************************************)
(* Vocabulary of the properties.                                           *)
(***************************************************************************)
RECURSIVE OptionTrace(_, _)
\* What getopt_long returns for a command line, call after call, when
\* nothing stops the loop before the end of the options.
OptionTrace(argv, optind) ==
  LET g == getopt_long(argv, optind) IN
  IF g.c = "EOF" THEN <<>> ELSE <<g>> \o OptionTrace(argv, g.optind)

Options(argv) == OptionTrace(argv, 1)

Returned(argv, c) == \E n \in 1..Len(Options(argv)) : Options(argv)[n].c = c

\* An unknown option or an option missing its value.
BadOption(argv) == Returned(argv, "?")

\* Some -i of the command line carries a count below 1.
SomeCountBelowOne(argv) ==
  \E n \in 1..Len(Options(argv)) :
    Options(argv)[n].c = "i" /\ atoi(Options(argv)[n].optarg) < 1

\* The last -i of the command line carries a count below 1.
LastCountBelowOne(argv) ==
  \E n \in 1..Len(Options(argv)) :
    /\ Options(argv)[n].c = "i" /\ atoi(Options(argv)[n].optarg) < 1
    /\ \A m \in (n + 1)..Len(Options(argv)) : Options(argv)[m].c # "i"

IsReportItem(it) == it.k \in {"hdr", "cell", "nl"}
IsLineEnd(it) == it.k = "nl"
IsDatabaseOutput(it) == it.k \in {"prompt", "hdr", "cell"}

\* What the report wrote, without the prompts of the insert loop.
Report(cout) == SelectSeq(cout, IsReportItem)

\* No database file holds anything: none was created or written.
NoDatabaseTouched == \A n \in DbNames : files[n] = NoFile

\* The process has neither opened a database nor prompted, inserted or
\* reported, and no table was created.
StoppedBeforeDatabase(s) ==
  /\ s.sql = "none"
  /\ NoDatabaseTouched
  /\ SelectSeq(s.cout, IsDatabaseOutput) = <<>>

\* The answer to a numeric prompt is one number that fits the field.
IsNumber(e, type) ==
  ~e.eof /\ Len(e.line) = 1 /\ e.line[1].k = "num" /\ Fits(type, e.line[1].v)

\* The operator answered the 4 prompts of each of n records with a line for
\* the name and a fitting number for the price and for each flag.
WellFormed(typed, n) ==
  /\ Len(typed) = 4 * n
  /\ \A r \in 0..(n - 1) :
       /\ ~typed[4 * r + 1].eof
       /\ IsNumber(typed[4 * r + 2], "double")
       /\ IsNumber(typed[4 * r + 3], "ushort")
       /\ IsNumber(typed[4 * r + 4], "ushort")

\* The table the process works on.
Exam(s) == files[s.db_name].exam

\* A run in insert mode that ended with status 0.
InsertDone(s) == s.pc = "exited" /\ s.status = EXIT_SUCCESS /\ s.insert_mode

\* A run in select mode that ended with status 0.
SelectDone(s) == s.pc = "exited" /\ s.status = EXIT_SUCCESS /\ s.select_mode

(***************************************************************************)
(* Argument handling and the connection check (SpecArgs).                  *)
(***************************************************************************)
\* C2, as stated: whenever the command line holds an unknown option, an
\* option missing its value, or a -i with a count below 1, whatever else it
\* holds, the process never gets past its argument handling, touches no
\* database, and if it has exited its status is not 0.
C2_AnyArgumentErrorStops ==
  LET s == proc[1] IN
  (s.pc # "idle" /\ (BadOption(s.argv) \/ SomeCountBelowOne(s.argv)))
    => (StoppedBeforeDatabase(s) /\ (s.pc = "exited" => s.status # EXIT_SUCCESS))

\* C2, amended: the same, where the count that matters is that of the last
\* -i of the command line (a later -i replaces an earlier one).
C2_ArgumentErrorStops ==
  LET s == proc[1] IN
  (s.pc # "idle" /\ (BadOption(s.argv) \/ LastCountBelowOne(s.argv)))
    => (StoppedBeforeDatabase(s) /\ (s.pc = "exited" => s.status # EXIT_SUCCESS))

\* C2's case: the run has exited on a count below 1 with -d and -s also given.
C2_Witness ==
  LET s == proc[1] IN
  /\ s.pc = "exited" /\ s.status = EXIT_FAILURE
  /\ LastCountBelowOne(s.argv) /\ ~BadOption(s.argv)
  /\ Returned(s.argv, "d") /\ Returned(s.argv, "s")

\* C3: whenever the command line holds -h or --help, the process never gets
\* past its argument handling, touches no database, and if it has exited it
\* has printed the usage text and its status is 1.
C3_HelpExitsWithUsage ==
  LET s == proc[1] IN
  (s.pc # "idle" /\ (Returned(s.argv, "h") \/ Returned(s.argv, "NUL")))
    => /\ StoppedBeforeDatabase(s)
       /\ s.pc = "exited" => (s.status = 1 /\ s.cout = <<[k |-> "usage"]>>)

\* C4: whenever -d is not on the command line, no database is opened, no
\* table is created, and nothing is inserted or reported.
C4_NoDatabaseWithoutName ==
  LET s == proc[1] IN
  (s.pc # "idle" /\ ~Returned(s.argv, "d")) => StoppedBeforeDatabase(s)

\* C5: once the connection has failed, the process has exited with a status
\* other than 0 after exactly two diagnostics, and no table was created, no
\* row inserted and nothing reported or prompted for.
C5_ConnectionFailureIsTerminal ==
  LET s == proc[1] IN
  s.sql = "failed"
    => /\ s.pc = "exited" /\ s.status # EXIT_SUCCESS
       /\ Len(s.cerr) = 2
       /\ NoDatabaseTouched
       /\ SelectSeq(s.cout, IsDatabaseOutput) = <<>>

\* C5's case: the connection failed in a run asked to insert and to select.
C5_Witness ==
  LET s == proc[1] IN
  s.sql = "failed" /\ s.insert_mode /\ s.select_mode /\ s.db_name = "t"

\* C6: a run given no arguments never gets past its argument handling,
\* touches no database, and when it has exited its status is 0 and all it
\* has printed is the hint, on standard error.
C6_NoArgumentsExitsZero ==
  LET s == proc[1] IN
  (s.pc # "idle" /\ s.argv = <<>>)
    => /\ StoppedBeforeDatabase(s)
       /\ s.pc = "exited" =>
            (s.status = EXIT_SUCCESS /\ s.cerr = <<"try_help">> /\ s.cout = <<>>)

\* C6's case: the run given no arguments has exited.
C6_Witness ==
  LET s == proc[1] IN s.pc = "exited" /\ s.argv = <<>>

(***************************************************************************)
(* The insert loop and the report (Spec).                                  *)
(***************************************************************************)
\* C1: when a run in insert mode with N well-formed answers has ended, the
\* table holds N rows more than the count c read before the first insert,
\* the rows before them are those that were there, and the new rows carry
\* the ids c+1, ..., c+N in the order of the iterations.
C1_InsertAssignsNextIds ==
  LET s == proc[1]
      c == s.examn_count
  IN  (InsertDone(s) /\ WellFormed(s.typed, s.records))
        => /\ s.records >= 1
           /\ Len(Exam(s)) = c + s.records
           /\ \A j \in 1..c : Exam(s)[j] = StoredRow(j)
           /\ \A j \in 1..s.records : Exam(s)[c + j].id = c + j

\* C1's case: two well-formed records were added to a table of one row.
C1_Witness ==
  LET s == proc[1] IN
  /\ InsertDone(s) /\ WellFormed(s.typed, s.records)
  /\ s.records = 2 /\ s.examn_count = 1 /\ Len(Exam(s)) = 3

\* A double printed with six significant digits: as entered when it has no
\* more than six, and else the nearest number with six.
PrintedAs(price, shown) ==
  IF Digits(price) <= 6 THEN shown = price
  ELSE LET unit == Pow10(Digits(price) - 6)
       IN  /\ shown % unit = 0
           /\ 2 * (shown - price) <= unit
           /\ 2 * (price - shown) <= unit

\* The report of a finished select shows every stored row on its own line,
\* with the price exactly as stored (exact) or with six significant digits;
\* and the rows a well-formed insert loop stored before it in the same run
\* hold the ids assigned and the values the operator entered.
RoundTrip(exact) ==
  LET s == proc[1]
      T == Exam(s)
      R == Report(s.cout)
      c == s.examn_count
  IN  SelectDone(s)
        => /\ Len(R) = 6 * (1 + Len(T))
           /\ \A j \in 1..Len(T) :
                /\ R[6 * j + 1].t = <<Num(T[j].id)>>
                /\ R[6 * j + 2].t = T[j].name
                /\ Len(R[6 * j + 3].t) = 1
                /\ IF exact THEN R[6 * j + 3].t[1].v = T[j].price
                   ELSE PrintedAs(T[j].price, R[6 * j + 3].t[1].v)
                /\ R[6 * j + 4].t = <<Num(T[j].is_edited)>>
                /\ R[6 * j + 5].t = <<Num(T[j].is_deleted)>>
           /\ (s.insert_mode /\ WellFormed(s.typed, s.records))
                => \A r \in 0..(s.records - 1) :
                     T[c + r + 1] =
                       [id |-> c + r + 1,
                        name |-> s.typed[4 * r + 1].line,
                        price |-> s.typed[4 * r + 2].line[1].v,
                        is_edited |-> s.typed[4 * r + 3].line[1].v,
                        is_deleted |-> s.typed[4 * r + 4].line[1].v]

\* C7, as stated: a select that runs after the inserts prints for every
\* record a row with the id assigned and the very name, price and flags
\* that were entered.
C7_RoundTripExact == RoundTrip(TRUE)

\* C7, amended: the same, with the price printed to six significant digits
\* (the value entered when it has no more than six).
C7_RoundTripSixDigits == RoundTrip(FALSE)

\* C7's case: a run inserted two well-formed records, one with a price of
\* seven digits, and then reported.
C7_Witness ==
  LET s == proc[1] IN
  /\ SelectDone(s) /\ s.insert_mode /\ WellFormed(s.typed, s.records)
  /\ s.records = 2
  /\ s.typed[2].line = <<Num(1234567)>>

\* C8: the report of a finished select over a table of k rows is one header
\* line of the five column names and then one line of five cells per row,
\* each ended by a newline: 1 + k lines in all on standard output, and the
\* header line alone when the table is empty.
C8_ReportHasOneLinePerRow ==
  LET s == proc[1]
      R == Report(s.cout)
      k == Len(Exam(s))
  IN  SelectDone(s)
        => /\ Len(SelectSeq(s.cout, IsLineEnd)) = 1 + k
           /\ Len(R) = 6 * (1 + k)
           /\ s.cout[Len(s.cout)].k = "nl"
           /\ \A col \in 1..5 :
                R[col].k = "hdr" /\ R[col].name = Columns[col].name
           /\ \A j \in 0..k : R[6 * j + 6].k = "nl"
           /\ \A j \in 1..k : \A col \in 1..5 : R[6 * j + col].k = "cell"

\* C8's case: a report over a table of at least two rows.
C8_Witness ==
  LET s == proc[1] IN SelectDone(s) /\ Len(Exam(s)) >= 2

\* The token a numeric extraction met in the step from s to t: the first
\* one left in the buffer or, if none, the one just typed (NL: none).
Met(s, t) ==
  LET b == SkipWs(s.cin) IN
  IF b # <<>> THEN Head(b)
  ELSE IF Len(t.typed) > Len(s.typed) /\ ~t.typed[Len(t.typed)].eof
       THEN Head(t.typed[Len(t.typed)].line)
  ELSE NL

FieldType(field) == IF field = "price" THEN "double" ELSE "ushort"

\* A step in which process 1 reads a price or a flag from a good stream.
ReadsNumber(s, t) ==
  s.pc \in {"price", "is_edited", "is_deleted"} /\ t.pc # s.pc /\ s.good

\* A run in insert mode that got its connection ends with status 0, nothing
\* on standard error, all N iterations done and N rows inserted.
LoopCompletes(t, T) ==
  (t.pc = "exited" /\ t.sql = "connected" /\ t.insert_mode)
    => /\ t.status = EXIT_SUCCESS /\ t.cerr = <<>>
       /\ t.i = t.records + 1
       /\ Len(T) = t.examn_count + t.records

\* C9, as stated: in every step, a field whose conversion fails is stored as
\* zero, and the loop still completes with N rows and status 0.
C9_FailedFieldIsZero ==
  [][LET s == proc[1]
         t == proc'[1]
     IN  /\ (ReadsNumber(s, t) /\ ~t.good /\ Met(s, t) # NL)
               => t.exam[s.pc] = 0
         /\ LoopCompletes(t, files'[t.db_name].exam)]_vars

\* C9, amended: a field answered with something that is no number is stored
\* as zero, a flag answered with a number too large for it is stored as the
\* largest unsigned short, and the loop still completes with N rows and
\* status 0.
C9_NonNumberIsZero ==
  [][LET s == proc[1]
         t == proc'[1]
     IN  /\ (ReadsNumber(s, t) /\ Met(s, t).k = "word")
               => (t.exam[s.pc] = 0 /\ ~t.good)
         /\ (ReadsNumber(s, t) /\ Met(s, t).k = "num"
               /\ ~Fits(FieldType(s.pc), Met(s, t).v))
               => (t.exam[s.pc] = USHRT_MAX /\ ~t.good)
         /\ LoopCompletes(t, files'[t.db_name].exam)]_vars

\* C9's case: a run of two records has ended in which the first price
\* prompt was answered with a word and the first row holds the price 0.
C9_Witness ==
  LET s == proc[1] IN
  /\ InsertDone(s) /\ s.records = 2
  /\ Len(s.typed) >= 2 /\ s.typed[2] = Line(<<WordA>>)
  /\ Exam(s)[s.examn_count + 1].price = 0

(***************************************************************************)
(* Runs one after another and runs that overlap (SpecRuns).                *)
(***************************************************************************)
\* The ids of a table are 1, ..., k in the order of its rows.
IdsAreOneToK(T) == \A j \in 1..Len(T) : T[j].id = j

HasDuplicateIds(T) ==
  \E a \in 1..Len(T) : \E b \in (a + 1)..Len(T) : T[a].id = T[b].id

\* The process has read the row count of file n and inserted a row after it.
HasInserted(p, n) ==
  /\ proc[p].insert_mode /\ proc[p].db_name = n
  /\ proc[p].sql = "connected" /\ proc[p].i >= 2

\* C10: as long as no insert loop has read its row count while another was
\* running on the same file, the ids of every table are exactly 1, ..., k;
\* and two insert loops that read the same row count and have both inserted
\* have stored a duplicate id.
C10_SequentialIdsAreOneToK ==
  /\ ~overlapped => \A n \in DbNames : IdsAreOneToK(files[n].exam)
  /\ \A n \in DbNames :
       (/\ HasInserted(1, n) /\ HasInserted(2, n)
        /\ proc[1].examn_count = proc[2].examn_count)
         => HasDuplicateIds(files[n].exam)

\* C10's case: both processes have inserted, one after the other, and the
\* table holds at least three rows.
C10_Witness ==
  /\ ~overlapped
  /\ HasInserted(1, "t") /\ HasInserted(2, "t")
  /\ proc[1].pc = "exited" /\ proc[2].pc = "exited"
  /\ Len(files["t"].exam) >= 3

\* The contrast of C10: two overlapping insert loops left a duplicate id.
C10_OverlapReached ==
  /\ HasInserted(1, "t") /\ HasInserted(2, "t")
  /\ proc[1].examn_count = proc[2].examn_count
  /\ HasDuplicateIds(files["t"].exam)

====
